---- MODULE Spec2Model ----
(***************************************************************************)
(* Order fulfilment and profit settlement pipeline of the e-commerce       *)
(* backend (services/orderProcessor.js), with the store schema of          *)
(* config/database.js and the cron trigger of services/scheduler.js.       *)
(*                                                                         *)
(* Money: prices and total_amount are in cents; a margin is in percent;    *)
(* a profit is price * margin, i.e. in units of 1/10000 of a dollar        *)
(* (12.5 dollars = 125000).                                                *)
(*                                                                         *)
(* One action is one await point of the code: the effect of the awaited    *)
(* call on the store or on the payment processor, followed by the          *)
(* synchronous code up to the next await.                                  *)
(***************************************************************************)
EXTENDS Integers, Sequences, FiniteSets, TLC

(* ---------------- bounds of the model ---------------- *)
MaxOrders == 2
MaxItems == 2
MaxRuns == 2
MaxClock == 2
MaxPolls == 2

(* ---------------- program constants ---------------- *)
BatchLimit == 10
DefaultMarginPct == 25

NULL == "NULL"

OrderIds == 1..MaxOrders
Runs == {1, 2}

PaymentMethods == {"stripe", "paypal", "bank_transfer"}
PaymentStatuses == {"pending", "paid", "failed"}
IntentStatuses == {"succeeded", "requires_payment_method"}
Suppliers == {"amazon", NULL}

(* The ids generateSupplierOrderId can return: a clock suffix and six      *)
(* random characters, so any value, a repeated one included.               *)
SupplierOrderIds == {"S1", "S2"}

VARIABLES
    orders,            \* orders table with order_items embedded: id -> row
    profit_transfers,  \* profit_transfers table: sequence of inserted rows
    hasErrorMessage,   \* whether the deployed orders table has error_message
    stripe,            \* whether the Stripe client was constructed
    storeUp,           \* whether the store answers requests
    started,           \* number of processOrders runs started
    pc,                \* per run: the await it is suspended at
    batch,             \* per run: pendingOrders as fetched (snapshots)
    idx,               \* per run: position in the for loop over the batch
    itemIdx,           \* per run: position in the for loop over the items
    profitAmount,      \* per run: local profitAmount of processSingleOrder
    cur,               \* per run: what happened so far to the order in hand
    trace,             \* per run: log of the orders the run is through with
    supplierOrders,    \* number of supplier orders created, per order and item
    payouts,           \* number of Stripe payouts created, per order
    settled,           \* orders for which a transfer was made and its insert returned
    hasTracking,       \* whether the deployed order_items table has the tracking columns
    now,               \* the clock (Date.now()), in units of 12 hours
    polled             \* per supplier order id: log of the trackSupplierOrder calls

trackVars == <<hasTracking, now, polled>>

vars == <<orders, profit_transfers, hasErrorMessage, stripe, storeUp,
          started, pc, batch, idx, itemIdx, profitAmount, cur, trace,
          supplierOrders, payouts, settled, hasTracking, now, polled>>

(* ---------------- the store as the program finds it ---------------- *)

(* An order_items row. profit_margin is <<>> when the row has none, <<m>>  *)
(* when it is m percent; tracking_data is <<>> or <<d>> in the same way.   *)
ItemRows ==
    [supplier : Suppliers, total_price : {4000}, profit_margin : {<<>>},
     supplier_order_id : {NULL}, supplier_status : {"pending"},
     tracking_number : {NULL}, tracking_data : {<<>>}]

RECURSIVE SeqsUpTo(_, _)
SeqsUpTo(S, n) ==
    IF n = 0 THEN {<<>>}
    ELSE LET shorter == SeqsUpTo(S, n - 1)
         IN  shorter \cup {Append(q, x) : q \in {t \in shorter : Len(t) = n - 1}, x \in S}

RECURSIVE SumPrices(_)
SumPrices(items) ==
    IF items = <<>> THEN 0
    ELSE items[1].total_price + SumPrices(Tail(items))

(* A pending order as order intake leaves it: the total of an order with   *)
(* line items is their sum, an order without line items has a total of 0   *)
(* or of 5000 cents.                                                       *)
OrderRows ==
    { [status |-> "pending", payment_status |-> ps, payment_method |-> pm,
       total_amount |-> IF its = <<>> THEN ta ELSE SumPrices(its),
       profit_amount |-> 0, error_message |-> NULL, updated_at |-> 0,
       order_items |-> its] :
        ps \in PaymentStatuses, pm \in PaymentMethods,
        its \in SeqsUpTo(ItemRows, MaxItems), ta \in {0, 5000} }

(* The orders that stand beside the order under study: one that passes    *)
(* every step (PayPal, one item with a supplier) and one that fails the    *)
(* payment step (a method the verifier does not know).                     *)
BackgroundRows ==
    { o \in OrderRows :
        /\ o.payment_status = "pending"
        /\ o.payment_method \in {"paypal", "bank_transfer"}
        /\ Len(o.order_items) = 1
        /\ o.order_items[1].supplier # NULL }

(* The stores a run can find: one order of any kind at any place among     *)
(* background orders.                                                      *)
InitialStores ==
    { tbl \in [OrderIds -> OrderRows] :
        \E k \in OrderIds : \A o \in OrderIds \ {k} : tbl[o] \in BackgroundRows }

(* A store with more pending orders than one run takes: BatchLimit + 2     *)
(* orders, all of them paid orders without items and without amount,       *)
(* except one order of any kind, in the first batch or after it, and,      *)
(* possibly, one order that is already completed.                          *)
BatchStoreSize == BatchLimit + 2

PlainRow(st) ==
    [status |-> st, payment_status |-> "paid", payment_method |-> "paypal",
     total_amount |-> 0, profit_amount |-> 0, error_message |-> NULL,
     updated_at |-> 0, order_items |-> <<>>]

BatchStores ==
    { [o \in 1..BatchStoreSize |->
          IF o = k THEN row ELSE IF o = j THEN PlainRow("completed")
          ELSE PlainRow("pending")] :
        k \in {1, BatchLimit + 1}, j \in {0, 2, BatchStoreSize}, row \in OrderRows }

(* The inputs of calculateProfit: line items of 1 cent, 10 dollars or 40   *)
(* dollars with no margin, a margin of 0, of 30 percent or of -10 percent (an item sold    *)
(* below cost), in orders of every payment kind, alone in the store.       *)
Prices == {1, 1000, 4000}
Margins == {<<>>, <<0>>, <<30>>, <<-10>>}

ProfitItemRows ==
    [supplier : {"amazon"}, total_price : Prices, profit_margin : Margins,
     supplier_order_id : {NULL}, supplier_status : {"pending"},
     tracking_number : {NULL}, tracking_data : {<<>>}]

ProfitStores ==
    { <<[status |-> "pending", payment_status |-> ps, payment_method |-> pm,
         total_amount |-> IF its = <<>> THEN ta ELSE SumPrices(its),
         profit_amount |-> 0, error_message |-> NULL, updated_at |-> 0,
         order_items |-> its]>> :
        ps \in PaymentStatuses, pm \in PaymentMethods,
        its \in SeqsUpTo(ProfitItemRows, MaxItems), ta \in {0, 5000} }

(* ---------------- pure functions ---------------- *)

(* calculateProfit: the sum over the items of total_price times the margin *)
(* (item.profit_margin || 0.25: a missing margin and a margin of 0 both    *)
(* give the default), or total_amount times the default without items.     *)
ItemMargin(item) ==
    IF item.profit_margin = <<>> \/ item.profit_margin = <<0>>
    THEN DefaultMarginPct
    ELSE item.profit_margin[1]

RECURSIVE SumProfit(_)
SumProfit(items) ==
    IF items = <<>> THEN 0
    ELSE items[1].total_price * ItemMargin(items[1]) + SumProfit(Tail(items))

calculateProfit(order) ==
    IF Len(order.order_items) > 0
    THEN SumProfit(order.order_items)
    ELSE order.total_amount * DefaultMarginPct

(* profit_amount is DECIMAL(10,2): the store rounds what it is given to     *)
(* whole cents (half away from zero).                                       *)
RoundToCents(x) ==
    IF x >= 0 THEN ((x + 50) \div 100) * 100
    ELSE -(((-x + 50) \div 100) * 100)

(* new Date().toISOString(): the clock at the time of the call.            *)
NewDate == now

(* A payment step that runs for every order, whatever its payment_status. *)
NeedsPaymentAlways(payment_status) == TRUE

(* Line 56: the payment step runs only for payment_status 'pending'.       *)
NeedsPayment(payment_status) == payment_status = "pending"

(* The select of processOrders: pending orders, oldest first, at most      *)
(* BatchLimit of them. Orders are created in the order of their ids.       *)
RECURSIVE PendingFrom(_, _)
PendingFrom(tbl, i) ==
    IF i > Len(tbl) THEN <<>>
    ELSE (IF tbl[i].status = "pending"
          THEN <<[id |-> i, payment_status |-> tbl[i].payment_status]>>
          ELSE <<>>) \o PendingFrom(tbl, i + 1)

(* A select of the orders of every status. *)
RECURSIVE AllFrom(_, _)
AllFrom(tbl, i) ==
    IF i > Len(tbl) THEN <<>>
    ELSE <<[id |-> i, payment_status |-> tbl[i].payment_status]>> \o AllFrom(tbl, i + 1)

FetchAnyStatus(tbl) == AllFrom(tbl, 1)

(* A select without the limit. *)
FetchPendingUnlimited(tbl) == PendingFrom(tbl, 1)

FetchPending(tbl) ==
    LET all == PendingFrom(tbl, 1)
    IN  SubSeq(all, 1, IF Len(all) < BatchLimit THEN Len(all) ELSE BatchLimit)

(* ---------------- initial state ---------------- *)

NoOrder == [order |-> 0, lost |-> FALSE, reported |-> "none", error |-> "",
            payout |-> "none", payoutId |-> 0, inserted |-> 0, outcome |-> "none"]

(* The state of a process that has started and run nothing yet, on one of  *)
(* the given stores.                                                       *)
Started(stores) ==
    /\ orders \in stores
    /\ profit_transfers = <<>>
    /\ storeUp = TRUE
    /\ started = 0
    /\ pc = [r \in Runs |-> "idle"]
    /\ batch = [r \in Runs |-> <<>>]
    /\ idx = [r \in Runs |-> 0]
    /\ itemIdx = [r \in Runs |-> 0]
    /\ profitAmount = [r \in Runs |-> 0]
    /\ cur = [r \in Runs |-> NoOrder]
    /\ trace = [r \in Runs |-> <<>>]
    /\ supplierOrders = [o \in DOMAIN orders |-> [i \in 1..MaxItems |-> 0]]
    /\ payouts = [o \in DOMAIN orders |-> 0]
    /\ settled = {}
    /\ now = 0
    /\ polled = [sid \in SupplierOrderIds |-> <<>>]

(* The orders table is the one of createTables, without error_message, or *)
(* an older one that has the column: createTables creates a table only if  *)
(* there is none and ignores every error (part_000 192-203). The Stripe    *)
(* client exists when STRIPE_SECRET_KEY is set (line 5).                   *)
Init ==
    /\ Started(InitialStores)
    /\ hasErrorMessage \in BOOLEAN
    /\ stripe \in BOOLEAN
    /\ hasTracking = FALSE

InitBatch ==
    /\ Started(BatchStores)
    /\ hasErrorMessage \in BOOLEAN
    /\ stripe = TRUE
    /\ hasTracking = FALSE

InitProfit ==
    /\ Started(ProfitStores)
    /\ hasErrorMessage \in BOOLEAN
    /\ stripe \in BOOLEAN
    /\ hasTracking = FALSE

(* ---------------- processOrders ---------------- *)

CurOrder(r) == batch[r][idx[r]].id

(* Lines 9-24: the select of the pending orders. An error of the select is *)
(* thrown (line 22) and ends the run in the outer catch (line 45).         *)
StartRun(r) ==
    /\ pc[r] = "idle"
    /\ started < MaxRuns
    /\ started' = started + 1
    /\ batch' = [batch EXCEPT ![r] = IF storeUp THEN FetchPending(orders) ELSE <<>>]
    /\ pc' = [pc EXCEPT ![r] = IF storeUp THEN "order" ELSE "idle"]
    /\ idx' = [idx EXCEPT ![r] = 1]
    /\ itemIdx' = [itemIdx EXCEPT ![r] = 0]
    /\ profitAmount' = [profitAmount EXCEPT ![r] = 0]
    /\ cur' = [cur EXCEPT ![r] = NoOrder]
    /\ trace' = [trace EXCEPT ![r] = <<>>]
    /\ UNCHANGED <<orders, profit_transfers, hasErrorMessage, stripe, storeUp,
                   supplierOrders, payouts, settled>>
    /\ UNCHANGED trackVars

(* The cron trigger (scheduler.js 28-33) or the manual trigger, with no    *)
(* run in progress.                                                        *)
Trigger ==
    /\ \A r \in Runs : pc[r] = "idle"
    /\ StartRun(1)

(* The trigger fires while an earlier run is still suspended at an await.  *)
OverlappingTrigger(r) ==
    /\ \E q \in Runs : pc[q] # "idle"
    /\ StartRun(r)

(* Lines 94-115 up to the first await of processPayment.                   *)
PaymentEntry(order) ==
    IF order.payment_method = "stripe" /\ stripe THEN "retrieve"
    ELSE IF order.payment_method = "paypal" THEN "payWrite"
    ELSE "fail"

(* Lines 26-28 and 53-58: the next order of the batch enters               *)
(* processSingleOrder.                                                     *)
BeginOrder(r) ==
    /\ pc[r] = "order"
    /\ idx[r] <= Len(batch[r])
    /\ LET snap == batch[r][idx[r]]
           next == IF NeedsPayment(snap.payment_status)
                   THEN PaymentEntry(orders[snap.id]) ELSE "profit"
       IN  /\ pc' = [pc EXCEPT ![r] = next]
           /\ cur' = [cur EXCEPT ![r] =
                        [NoOrder EXCEPT !.order = snap.id,
                           !.error = IF next = "fail"
                                     THEN "Unsupported payment method" ELSE ""]]
    /\ UNCHANGED <<orders, profit_transfers, hasErrorMessage, stripe, storeUp,
                   started, batch, idx, itemIdx, profitAmount, trace,
                   supplierOrders, payouts, settled>>
    /\ UNCHANGED trackVars

(* Line 44: the loop is over.                                              *)
EndRun(r) ==
    /\ pc[r] = "order"
    /\ idx[r] > Len(batch[r])
    /\ pc' = [pc EXCEPT ![r] = "idle"]
    /\ UNCHANGED <<orders, profit_transfers, hasErrorMessage, stripe, storeUp,
                   started, batch, idx, itemIdx, profitAmount, cur, trace,
                   supplierOrders, payouts, settled>>
    /\ UNCHANGED trackVars

(* ---------------- processPayment ---------------- *)

(* Line 98: only a payment intent that succeeded counts as paid.           *)
IntentPaid(st) == st = "succeeded"

(* Line 96: the answer of stripe.paymentIntents.retrieve, a status or an   *)
(* error of the call; lines 98-105 on it.                                  *)
Retrieve(r) ==
    /\ pc[r] = "retrieve"
    /\ \E st \in IntentStatuses \cup {"error"} :
         /\ cur' = [cur EXCEPT ![r].reported = st,
                               ![r].error = IF st = "error" THEN "StripeError"
                                            ELSE IF IntentPaid(st) THEN ""
                                            ELSE "Payment not completed: " \o st]
         /\ pc' = [pc EXCEPT ![r] = IF st # "error" /\ IntentPaid(st)
                                    THEN "payWrite" ELSE "fail"]
    /\ UNCHANGED <<orders, profit_transfers, hasErrorMessage, stripe, storeUp,
                   started, batch, idx, itemIdx, profitAmount, trace,
                   supplierOrders, payouts, settled>>
    /\ UNCHANGED trackVars

(* Lines 99-102 and 109-112: payment_status becomes paid. The result of    *)
(* the update is not looked at: a failed update goes unnoticed.            *)
PayWrite(r) ==
    /\ pc[r] = "payWrite"
    /\ orders' = IF storeUp
                 THEN [orders EXCEPT ![CurOrder(r)].payment_status = "paid"]
                 ELSE orders
    /\ cur' = [cur EXCEPT ![r].lost = @ \/ ~storeUp]
    /\ pc' = [pc EXCEPT ![r] = "profit"]
    /\ UNCHANGED <<profit_transfers, hasErrorMessage, stripe, storeUp,
                   started, batch, idx, itemIdx, profitAmount, trace,
                   supplierOrders, payouts, settled>>
    /\ UNCHANGED trackVars

(* ---------------- handleProfitTransfer, entry ---------------- *)

(* Lines 225-236 up to the first await: which transfer is made.            *)
PayoutBranch(order, profit) ==
    IF profit <= 0 THEN "none"
    ELSE IF order.payment_method = "stripe" /\ stripe THEN "stripe"
    ELSE IF order.payment_method = "paypal" THEN "paypal"
    ELSE "none"

(* A step 3 that is followed by step 5 at once.                            *)
AfterItemsSkipsPayout(order, profit) == "complete"

(* Lines 73-76: after the last item, handleProfitTransfer.                 *)
AfterItems(order, profit) ==
    LET b == PayoutBranch(order, profit)
    IN  IF b = "stripe" THEN "payoutCreate"
        ELSE IF b = "paypal" THEN "transferInsert"
        ELSE "complete"

(* What handleProfitTransfer has come to when it makes no transfer:        *)
(* "skipped" after the early return of lines 225-228, "nothing" when no    *)
(* branch of lines 230-236 applies and line 238 reports the transfer as    *)
(* initiated; "none" while a transfer is still to be made.                 *)
PayoutAtEntry(order, profit) ==
    IF profit <= 0 THEN "skipped"
    ELSE IF PayoutBranch(order, profit) = "none" THEN "nothing"
    ELSE "none"

(* ---------------- processSingleOrder, steps 2 and 3 ---------------- *)

(* Lines 61-70: the profit is calculated from the fetched order and        *)
(* written to the order.                                                   *)
ProfitWrite(r) ==
    /\ pc[r] = "profit"
    /\ LET o == CurOrder(r)
           profit == calculateProfit(orders[o])
           next == IF Len(orders[o].order_items) > 0 THEN "dispatch"
                   ELSE AfterItems(orders[o], profit)
       IN  /\ profitAmount' = [profitAmount EXCEPT ![r] = profit]
           /\ orders' = IF storeUp
                        THEN [orders EXCEPT ![o].profit_amount = RoundToCents(profit),
                                            ![o].updated_at = NewDate]
                        ELSE orders
           /\ itemIdx' = [itemIdx EXCEPT ![r] = 1]
           /\ pc' = [pc EXCEPT ![r] = next]
           /\ cur' = [cur EXCEPT ![r].lost = @ \/ ~storeUp,
                                 ![r].payout = IF next = "dispatch" THEN @
                                               ELSE PayoutAtEntry(orders[o], profit)]
    /\ UNCHANGED <<profit_transfers, hasErrorMessage, stripe, storeUp,
                   started, batch, idx, trace, supplierOrders, payouts, settled>>
    /\ UNCHANGED trackVars

(* An error of a dispatch that is logged and not thrown on.                *)
OnDispatchErrorSwallowed == "complete"

(* Lines 161-164: an error of a dispatch is thrown on, out of              *)
(* processSingleOrder, to the catch block of the loop.                     *)
OnDispatchError == "fail"

(* An update of the item that writes nothing.                              *)
ItemNotUpdated(item, id) == item

(* An update of the item that writes the reference and not the status.     *)
ItemGivenReferenceOnly(item, id) == [item EXCEPT !.supplier_order_id = id]

(* Lines 151-158: the update of the item after its supplier order is       *)
(* created.                                                                *)
DispatchedItem(item, id) ==
    [item EXCEPT !.supplier_order_id = id, !.supplier_status = "ordered"]

(* Lines 170-192 and 208-221: createSupplierOrder throws on an item        *)
(* without supplier (supplier.toLowerCase()).                              *)
CanDispatch(item) == item.supplier # NULL

(* Lines 146-165: one turn of the loop over the fetched items. Whether the *)
(* item already has a supplier order is not looked at.                     *)
Dispatch(r) ==
    /\ pc[r] = "dispatch"
    /\ LET o == CurOrder(r)
           i == itemIdx[r]
           items == orders[o].order_items
       IN  \/ /\ ~CanDispatch(items[i])
              /\ pc' = [pc EXCEPT ![r] = OnDispatchError]
              /\ cur' = [cur EXCEPT ![r].error = "TypeError"]
              /\ UNCHANGED <<orders, itemIdx, supplierOrders>>
           \/ /\ CanDispatch(items[i])
              /\ \E id \in SupplierOrderIds :
                   orders' = IF storeUp
                             THEN [orders EXCEPT
                                     ![o].order_items[i] = DispatchedItem(@, id)]
                             ELSE orders
              /\ supplierOrders' = [supplierOrders EXCEPT ![o][i] = @ + 1]
              /\ itemIdx' = [itemIdx EXCEPT ![r] = i + 1]
              /\ LET next == IF i + 1 <= Len(items) THEN "dispatch"
                             ELSE AfterItems(orders[o], profitAmount[r])
                     done == PayoutAtEntry(orders[o], profitAmount[r])
                 IN  /\ pc' = [pc EXCEPT ![r] = next]
                     /\ cur' = [cur EXCEPT ![r].lost = @ \/ ~storeUp,
                                  ![r].payout = IF next = "dispatch" THEN @ ELSE done]
    /\ UNCHANGED <<profit_transfers, hasErrorMessage, stripe, storeUp,
                   started, batch, idx, profitAmount, trace, payouts, settled>>
    /\ UNCHANGED trackVars

(* ---------------- handleProfitTransfer ---------------- *)

(* A catch block that throws the error on, to the catch block of the loop. *)
OnPayoutErrorThrows == "fail"

(* Lines 239-243: an error of the transfer is logged and not thrown on, so *)
(* processSingleOrder goes on to its step 5.                               *)
OnPayoutError == "complete"

(* Lines 249-257: stripe.payouts.create, which creates the payout or       *)
(* throws.                                                                 *)
PayoutCreate(r) ==
    /\ pc[r] = "payoutCreate"
    /\ \/ /\ payouts' = [payouts EXCEPT ![CurOrder(r)] = @ + 1]
          /\ pc' = [pc EXCEPT ![r] = "transferInsert"]
          /\ cur' = [cur EXCEPT ![r].payout = "created",
                                ![r].payoutId = payouts[CurOrder(r)] + 1]
       \/ /\ pc' = [pc EXCEPT ![r] = OnPayoutError]
          /\ cur' = [cur EXCEPT ![r].payout = "failed",
                                ![r].error = IF OnPayoutError = "fail"
                                             THEN "StripeError" ELSE @]
          /\ UNCHANGED payouts
    /\ UNCHANGED <<orders, profit_transfers, hasErrorMessage, stripe, storeUp,
                   started, batch, idx, itemIdx, profitAmount, trace,
                   supplierOrders, settled>>
    /\ UNCHANGED trackVars

(* A transfer row that is pending whatever the method is.                  *)
TransferRowAllPending(o, order, profit, payoutId) ==
    [order_id |-> o, amount |-> profit, method |-> order.payment_method,
     transfer_id |-> <<"po", o, payoutId>>, status |-> "pending", notes |-> NULL]

(* Lines 263-270 (transferToBankAccount) and 281-289 (markPayPalTransfer): *)
(* the row handed to the insert into profit_transfers. The transfer_id is  *)
(* the id of the payout (payout.id) or PP- and the number of the order.    *)
TransferRow(o, order, profit, payoutId) ==
    IF order.payment_method = "stripe"
    THEN [order_id |-> o, amount |-> profit, method |-> "stripe",
          transfer_id |-> <<"po", o, payoutId>>,
          status |-> "pending", notes |-> NULL]
    ELSE [order_id |-> o, amount |-> profit, method |-> "paypal",
          transfer_id |-> <<"PP", o, 0>>,
          status |-> "pending_manual", notes |-> "Manual PayPal transfer required"]

(* The amount a row of profit_transfers can hold when it is handed x: the  *)
(* table is not one of createTables, so its amount column keeps x as it is *)
(* or, as orders.profit_amount does, rounds it to cents.                   *)
StoredAmounts(x) == {x, RoundToCents(x)}

(* The insert; its result is not looked at.                                *)
TransferInsert(r) ==
    /\ pc[r] = "transferInsert"
    /\ LET o == CurOrder(r)
           row == TransferRow(o, orders[o], profitAmount[r], cur[r].payoutId)
       IN  /\ \E amt \in StoredAmounts(row.amount) :
                 profit_transfers' =
                    IF storeUp
                    THEN Append(profit_transfers, [row EXCEPT !.amount = amt])
                    ELSE profit_transfers
           /\ settled' = settled \cup {o}
    /\ cur' = [cur EXCEPT ![r].lost = @ \/ ~storeUp,
                          ![r].payout = "ok",
                          ![r].inserted = IF storeUp THEN @ + 1 ELSE @]
    /\ pc' = [pc EXCEPT ![r] = "complete"]
    /\ UNCHANGED <<orders, hasErrorMessage, stripe, storeUp, started, batch,
                   idx, itemIdx, profitAmount, trace, supplierOrders, payouts>>
    /\ UNCHANGED trackVars

(* ---------------- the end of an order ---------------- *)

(* Lines 79-85: step 5, the order becomes completed; the result of the     *)
(* update is not looked at.                                                *)
Complete(r) ==
    /\ pc[r] = "complete"
    /\ orders' = IF storeUp
                 THEN [orders EXCEPT ![CurOrder(r)].status = "completed",
                                     ![CurOrder(r)].updated_at = NewDate]
                 ELSE orders
    /\ trace' = [trace EXCEPT ![r] =
                   Append(@, [cur[r] EXCEPT !.outcome = "completed",
                                            !.lost = @ \/ ~storeUp])]
    /\ idx' = [idx EXCEPT ![r] = @ + 1]
    /\ pc' = [pc EXCEPT ![r] = "order"]
    /\ UNCHANGED <<profit_transfers, hasErrorMessage, stripe, storeUp, started,
                   batch, itemIdx, profitAmount, cur, supplierOrders, payouts,
                   settled>>
    /\ UNCHANGED trackVars

(* A loop that an error leaves: the rest of the batch is dropped.          *)
AfterFailureAborts(r) == Len(batch[r]) + 1

(* Line 42: after the catch block the loop goes on with the next order.    *)
AfterFailure(r) == idx[r] + 1

(* Lines 29-41: the catch block of the loop. The update names the column   *)
(* error_message, which the orders table of createTables does not have:    *)
(* the store then rejects the whole update. Its result is not looked at.   *)
Fail(r) ==
    /\ pc[r] = "fail"
    /\ orders' = IF storeUp /\ hasErrorMessage
                 THEN [orders EXCEPT ![CurOrder(r)].status = "failed",
                                     ![CurOrder(r)].error_message = cur[r].error,
                                     ![CurOrder(r)].updated_at = NewDate]
                 ELSE orders
    /\ trace' = [trace EXCEPT ![r] =
                   Append(@, [cur[r] EXCEPT !.outcome = "failed",
                                            !.lost = @ \/ ~storeUp])]
    /\ idx' = [idx EXCEPT ![r] = AfterFailure(r)]
    /\ pc' = [pc EXCEPT ![r] = "order"]
    /\ UNCHANGED <<profit_transfers, hasErrorMessage, stripe, storeUp, started,
                   batch, itemIdx, profitAmount, cur, supplierOrders, payouts,
                   settled>>
    /\ UNCHANGED trackVars

(* ---------------- the environment ---------------- *)

(* The process is restarted: every run in progress is gone, the store      *)
(* keeps what was written.                                                 *)
Crash ==
    /\ \E r \in Runs : pc[r] # "idle"
    /\ pc' = [r \in Runs |-> "idle"]
    /\ batch' = [r \in Runs |-> <<>>]
    /\ idx' = [r \in Runs |-> 0]
    /\ itemIdx' = [r \in Runs |-> 0]
    /\ profitAmount' = [r \in Runs |-> 0]
    /\ cur' = [r \in Runs |-> NoOrder]
    /\ trace' = [r \in Runs |-> <<>>]
    /\ UNCHANGED <<orders, profit_transfers, hasErrorMessage, stripe, storeUp,
                   started, supplierOrders, payouts, settled>>
    /\ UNCHANGED trackVars

(* The store stops answering, and answers again.                           *)
StoreDown ==
    /\ storeUp
    /\ storeUp' = FALSE
    /\ UNCHANGED <<orders, profit_transfers, hasErrorMessage, stripe, started,
                   pc, batch, idx, itemIdx, profitAmount, cur, trace,
                   supplierOrders, payouts, settled>>
    /\ UNCHANGED trackVars

StoreBack ==
    /\ ~storeUp
    /\ storeUp' = TRUE
    /\ UNCHANGED <<orders, profit_transfers, hasErrorMessage, stripe, started,
                   pc, batch, idx, itemIdx, profitAmount, cur, trace,
                   supplierOrders, payouts, settled>>
    /\ UNCHANGED trackVars

(* ---------------- specifications ---------------- *)

Step(r) ==
    \/ BeginOrder(r)
    \/ EndRun(r)
    \/ Retrieve(r)
    \/ PayWrite(r)
    \/ ProfitWrite(r)
    \/ Dispatch(r)
    \/ PayoutCreate(r)
    \/ TransferInsert(r)
    \/ Complete(r)
    \/ Fail(r)

(* Runs that do not overlap, on a store that answers.                      *)
Next ==
    \/ Trigger
    \/ \E r \in Runs : Step(r)

Spec == Init /\ [][Next]_vars

(* Runs that do not overlap, with restarts of the process.                 *)
NextRestart ==
    \/ Trigger
    \/ \E r \in Runs : Step(r)
    \/ Crash

SpecRestart == Init /\ [][NextRestart]_vars

(* Runs that may overlap: the trigger fires every five minutes whether or  *)
(* not the run before it has returned.                                     *)
NextOverlap ==
    \/ Trigger
    \/ \E r \in Runs : OverlappingTrigger(r)
    \/ \E r \in Runs : Step(r)

SpecOverlap == Init /\ [][NextOverlap]_vars

(* ---------------- trackSupplierOrder ---------------- *)

(* Lines 327-342: the tracking data of the simulation, made of the clock:  *)
(* delivery in 2 days, events 24 and 12 hours ago.                         *)
TrackingData(t) ==
    [status |-> "in_transit", estimated_delivery |-> t + 4,
     tracking_events |->
        << [timestamp |-> t - 2, status |-> "order_processed",
            location |-> "Supplier warehouse"],
           [timestamp |-> t - 1, status |-> "shipped",
            location |-> "Origin facility"] >>]

(* Lines 346-353: the update of the items that hold the supplier order id. *)
RECURSIVE TrackItems(_, _, _)
TrackItems(items, sid, data) ==
    IF items = <<>> THEN <<>>
    ELSE <<IF items[1].supplier_order_id = sid
           THEN [items[1] EXCEPT !.tracking_number = <<"TRK", sid>>,
                                 !.supplier_status = "in_transit",
                                 !.tracking_data = <<data>>]
           ELSE items[1]>> \o TrackItems(Tail(items), sid, data)

RECURSIVE PollsOf(_)
PollsOf(sids) ==
    IF sids = {} THEN 0
    ELSE LET sid == CHOOSE x \in sids : TRUE
         IN  Len(polled[sid]) + PollsOf(sids \ {sid})

PollsMade == PollsOf(SupplierOrderIds)

(* trackSupplierOrder, lines 322-360. The update names tracking_number and *)
(* tracking_data: on the order_items table of createTables, which has      *)
(* neither, the store rejects it whole. Its result is not looked at and    *)
(* the tracking data are returned in every case.                           *)
trackSupplierOrder(sid) ==
    /\ PollsMade < MaxPolls
    /\ LET data == TrackingData(now)
           after == IF storeUp /\ hasTracking
                    THEN [o \in DOMAIN orders |->
                            [orders[o] EXCEPT !.order_items = TrackItems(@, sid, data)]]
                    ELSE orders
       IN  /\ orders' = after
           /\ polled' = [polled EXCEPT ![sid] =
                            Append(@, [returned |-> data, before |-> orders, after |-> after])]
    /\ UNCHANGED <<profit_transfers, hasErrorMessage, stripe, storeUp, started, pc,
                   batch, idx, itemIdx, profitAmount, cur, trace, supplierOrders,
                   payouts, settled, hasTracking, now>>

(* Time passes.                                                            *)
Tick ==
    /\ now < MaxClock
    /\ now' = now + 1
    /\ UNCHANGED <<orders, profit_transfers, hasErrorMessage, stripe, storeUp,
                   started, pc, batch, idx, itemIdx, profitAmount, cur, trace,
                   supplierOrders, payouts, settled, hasTracking, polled>>

(* One order of any kind alone in the store; the order_items table has the *)
(* tracking columns or is the one of createTables.                         *)
TrackStores == { <<row>> : row \in OrderRows }

InitTrack ==
    /\ Started(TrackStores)
    /\ hasErrorMessage = TRUE
    /\ stripe = TRUE
    /\ hasTracking \in BOOLEAN

NextTrack ==
    \/ Next
    \/ Tick
    \/ \E sid \in SupplierOrderIds : trackSupplierOrder(sid)

(* The pipeline with the tracking of supplier orders polled at any time.   *)
SpecTrack == InitTrack /\ [][NextTrack]_vars

(* The pipeline on one order of any kind, with a store that stops          *)
(* answering and answers again at any time.                                *)
InitOutage ==
    /\ Started(TrackStores)
    /\ hasErrorMessage \in BOOLEAN
    /\ stripe \in BOOLEAN
    /\ hasTracking = FALSE

NextOutage ==
    \/ Next
    \/ StoreDown
    \/ StoreBack

SpecOutage == InitOutage /\ [][NextOutage]_vars

(* The pipeline on one order of any kind, with a clock that goes on.       *)
NextClock ==
    \/ Next
    \/ Tick

SpecClock == InitOutage /\ [][NextClock]_vars

(* calculateProfit and the write of its result, on orders whose items have *)
(* prices and margins of every kind.                                       *)
SpecProfit == InitProfit /\ [][Next]_vars

(* The pipeline on a store with more pending orders than one run takes.    *)
SpecBatch == InitBatch /\ [][Next]_vars

(* ---------------- vocabulary of the claims ---------------- *)

Items(o) == orders[o].order_items
ItemIds(o) == 1..Len(Items(o))

AllDispatchable(o) == \A i \in ItemIds(o) : Items(o)[i].supplier # NULL

(* The first item of the order without a supplier, 0 when there is none.   *)
FirstUndispatchable(o) ==
    IF AllDispatchable(o) THEN 0
    ELSE CHOOSE i \in ItemIds(o) :
           /\ Items(o)[i].supplier = NULL
           /\ \A j \in 1..(i - 1) : Items(o)[j].supplier # NULL

TransfersOf(o) ==
    Cardinality({k \in 1..Len(profit_transfers) : profit_transfers[k].order_id = o})

(* The orders a run is through with, each with the snapshot it was fetched *)
(* as.                                                                     *)
Logged(r) == 1..Len(trace[r])

FailedInPayment(e) == e.outcome = "failed" /\ e.error # "TypeError" /\ e.payout = "none"
FailedInDispatch(e) == e.outcome = "failed" /\ e.error = "TypeError"

(* An order that by itself passes every step: nothing to verify or a       *)
(* payment the processor confirms (PayPal is taken as confirmed), and a    *)
(* supplier on every item.                                                 *)
IndividuallyValid(snap, e) ==
    /\ AllDispatchable(snap.id)
    /\ \/ snap.payment_status # "pending"
       \/ orders[snap.id].payment_method = "paypal"
       \/ e.reported = "succeeded"

(* ---------------- claims ---------------- *)

(* C1: failure isolation. Every order of the fetched batch is gone         *)
(* through, in batch order, whatever happened to the orders before it; a   *)
(* run that has returned has gone through its whole batch; and every       *)
(* order of the batch that is individually valid has status completed,     *)
(* whether an order before it or after it failed.                          *)
C1_FailureIsolation ==
    \A r \in Runs :
        /\ pc[r] = "order" => Len(trace[r]) = idx[r] - 1
        /\ pc[r] = "idle" => Len(trace[r]) = Len(batch[r])
        /\ \A i \in Logged(r) :
             /\ trace[r][i].order = batch[r][i].id
             /\ IndividuallyValid(batch[r][i], trace[r][i])
                  => orders[trace[r][i].order].status = "completed"

(* C1, its case: a run has returned from a batch of two whose first order  *)
(* failed and whose second order is completed.                             *)
C1_Witness ==
    \E r \in Runs :
        /\ pc[r] = "idle"
        /\ Len(trace[r]) = 2
        /\ trace[r][1].outcome = "failed"
        /\ orders[trace[r][1].order].status = "failed"
        /\ IndividuallyValid(batch[r][2], trace[r][2])
        /\ orders[trace[r][2].order].status = "completed"

(* C2: payment gating. No order is completed, and no item of it is         *)
(* dispatched, unless its payment_status is paid.                          *)
C2_PaymentGating ==
    \A o \in OrderIds :
        (\/ orders[o].status = "completed"
         \/ \E i \in ItemIds(o) : supplierOrders[o][i] > 0)
        => orders[o].payment_status = "paid"

(* C3: payment_status becomes paid only for an order whose payment the     *)
(* processor has just reported as cleared.                                 *)
C3_PaidOnlyWhenCleared ==
    [][\A o \in OrderIds :
         (orders[o].payment_status # "paid" /\ orders'[o].payment_status = "paid")
         => \E r \in Runs : /\ pc[r] = "payWrite"
                            /\ cur[r].order = o
                            /\ cur[r].reported = "succeeded"]_vars

(* C4: an order whose payment verification failed is failed with its       *)
(* error_message set; no profit of it is persisted, no item of it is       *)
(* dispatched and no transfer is written for it; the run goes on with the  *)
(* next order.                                                             *)
C4_PaymentFailureFailsOrder ==
    \A r \in Runs :
        (pc[r] = "order" /\ trace[r] # <<>> /\ FailedInPayment(trace[r][Len(trace[r])]))
        => LET o == trace[r][Len(trace[r])].order
           IN  /\ orders[o].status = "failed"
               /\ orders[o].error_message # NULL
               /\ orders[o].profit_amount = 0
               /\ \A i \in ItemIds(o) : supplierOrders[o][i] = 0
               /\ TransfersOf(o) = 0
               /\ idx[r] = Len(trace[r]) + 1

(* C5: an order one of whose items failed dispatch is failed; no item      *)
(* after the failing one is dispatched, and the items before it keep       *)
(* their supplier order reference.                                         *)
C5_DispatchFailureFailsOrder ==
    \A r \in Runs :
        (pc[r] = "order" /\ trace[r] # <<>> /\ FailedInDispatch(trace[r][Len(trace[r])]))
        => LET o == trace[r][Len(trace[r])].order
               k == FirstUndispatchable(o)
           IN  /\ orders[o].status = "failed"
               /\ \A i \in ItemIds(o) : i >= k => supplierOrders[o][i] = 0
               /\ \A i \in ItemIds(o) : i < k => Items(o)[i].supplier_order_id # NULL

(* C6: an order whose payout failed is completed, never failed, and all    *)
(* its items are dispatched.                                               *)
C6_PayoutFailureCompletes ==
    \A r \in Runs :
        /\ (pc[r] # "idle" /\ cur[r].payout = "failed") => pc[r] \in {"complete", "order"}
        /\ \A i \in Logged(r) :
             trace[r][i].payout = "failed"
             => LET o == trace[r][i].order
                IN  /\ trace[r][i].outcome = "completed"
                    /\ orders[o].status = "completed"
                    /\ \A k \in ItemIds(o) :
                         /\ Items(o)[k].supplier_order_id # NULL
                         /\ Items(o)[k].supplier_status = "ordered"

(* C6, its case: the payout of an order with items has failed and the      *)
(* order is completed.                                                     *)
C6_Witness ==
    \E r \in Runs : \E i \in Logged(r) :
        /\ trace[r][i].payout = "failed"
        /\ Len(Items(trace[r][i].order)) > 0
        /\ orders[trace[r][i].order].status = "completed"

(* C7: every invocation of handleProfitTransfer writes exactly one         *)
(* profit_transfers row, also when the payout request fails.               *)
C7_OneTransferPerInvocation ==
    \A r \in Runs : \A i \in Logged(r) :
        trace[r][i].payout # "none" => trace[r][i].inserted = 1

(* C8: with no run in progress, every order for which a payout phase has   *)
(* made its transfer and returned has exactly one profit_transfers row.    *)
C8_ExactlyOneTransfer ==
    (\A r \in Runs : pc[r] = "idle")
    => \A o \in settled : TransfersOf(o) = 1

(* C9: an item that has a supplier order reference is not dispatched       *)
(* again, and no payout is initiated for an order that has a               *)
(* profit_transfers row.                                                   *)
C9_ResumeDoesNotRedo ==
    [][\A o \in OrderIds :
         /\ \A i \in ItemIds(o) :
              Items(o)[i].supplier_order_id # NULL
              => supplierOrders'[o][i] = supplierOrders[o][i]
         /\ TransfersOf(o) > 0
              => /\ payouts'[o] = payouts[o]
                 /\ profit_transfers' = profit_transfers
                    \/ profit_transfers'[Len(profit_transfers')].order_id # o]_vars

(* C10: no item is dispatched more than once and no order gets more than   *)
(* one payout, also when runs overlap.                                     *)
C10_NoDoubleProcessing ==
    \A o \in OrderIds :
        /\ \A i \in ItemIds(o) : supplierOrders[o][i] <= 1
        /\ payouts[o] <= 1
        /\ TransfersOf(o) <= 1

(* A run has an order in hand: it is inside processSingleOrder or in the   *)
(* catch block of the loop.                                                *)
InHand(r) == pc[r] \notin {"idle", "order"}

(* C11: for an order fetched with payment_status paid the Payment Verifier *)
(* is never called: the run never waits for the processor's answer, never  *)
(* has one, and never writes payment_status, in the first run or in a      *)
(* later one.                                                              *)
C11_PaidIsNotVerifiedAgain ==
    \A r \in Runs :
        /\ (InHand(r) /\ batch[r][idx[r]].payment_status = "paid")
             => /\ pc[r] \notin {"retrieve", "payWrite"}
                /\ cur[r].reported = "none"
        /\ \A i \in Logged(r) :
             batch[r][i].payment_status = "paid" => trace[r][i].reported = "none"

(* C11, its case: a second run has in hand, past the payment step, an      *)
(* order it fetched as paid.                                               *)
C11_Witness ==
    \E r \in Runs :
        /\ started = 2
        /\ pc[r] = "dispatch"
        /\ batch[r][idx[r]].payment_status = "paid"
        /\ orders[CurOrder(r)].payment_method = "stripe"
        /\ stripe

(* The methods processPayment cannot verify as the process is configured:  *)
(* any but stripe and paypal, and stripe without a Stripe client.          *)
Unverifiable(method) ==
    method \notin {"stripe", "paypal"} \/ (method = "stripe" /\ ~stripe)

(* C12: an order fetched as unpaid whose payment method cannot be verified *)
(* fails with the unsupported-method error and is failed, and none of its  *)
(* items is touched.                                                       *)
C12_UnsupportedMethodFails ==
    \A r \in Runs : \A i \in Logged(r) :
        LET o == trace[r][i].order
        IN  (batch[r][i].payment_status = "pending"
             /\ Unverifiable(orders[o].payment_method))
            => /\ trace[r][i].outcome = "failed"
               /\ trace[r][i].error = "Unsupported payment method"
               /\ orders[o].status = "failed"
               /\ \A k \in ItemIds(o) :
                    /\ Items(o)[k].supplier_order_id = NULL
                    /\ Items(o)[k].supplier_status = "pending"
                    /\ supplierOrders[o][k] = 0

(* The orders a run fetched, and the orders of the store.                  *)
BatchIds(r) == {batch[r][i].id : i \in 1..Len(batch[r])}
Stored == DOMAIN orders

(* A run has just fetched its batch: the store is as the select saw it.    *)
JustFetched(r) == pc[r] = "order" /\ idx[r] = 1

(* What a run fetches: at most BatchLimit orders, in ascending order of    *)
(* creation, every one of them pending, and no pending order left out      *)
(* unless the batch is full and the order is newer than all of the batch.  *)
C13_Fetched ==
    \A r \in Runs :
        /\ Len(batch[r]) <= BatchLimit
        /\ \A i, k \in 1..Len(batch[r]) : i < k => batch[r][i].id < batch[r][k].id
        /\ JustFetched(r) =>
             /\ \A o \in BatchIds(r) : orders[o].status = "pending"
             /\ \A o \in Stored \ BatchIds(r) :
                  orders[o].status = "pending"
                    => /\ Len(batch[r]) = BatchLimit
                       /\ \A b \in BatchIds(r) : b < o

(* What a run touches: a step changes the row and the items of no order    *)
(* but a pending one that an active run fetched.                           *)
C13_Touched ==
    \A o \in Stored :
        orders'[o] # orders[o]
          => /\ orders[o].status = "pending"
             /\ \E r \in Runs : pc[r] # "idle" /\ o \in BatchIds(r)

(* C13: a run processes only orders that were pending when it fetched, at  *)
(* most 10 of them, the oldest pending ones in ascending order of          *)
(* creation; orders in another status are never touched.                   *)
C13_BatchBoundedOldestPending == []C13_Fetched /\ [][C13_Touched]_vars

(* C13, its case: a run has fetched a full batch from a store that has an  *)
(* older order in another status, which it skipped, and one more pending   *)
(* order, which it left for the next run.                                  *)
C13_Witness ==
    \E r \in Runs :
        /\ JustFetched(r)
        /\ Len(batch[r]) = BatchLimit
        /\ \E o \in Stored : orders[o].status # "pending" /\ o < batch[r][BatchLimit].id
        /\ \E o \in Stored \ BatchIds(r) : orders[o].status = "pending"

(* A run has calculated the profit of the order in hand (line 61).         *)
Calculated(r) == pc[r] \in {"dispatch", "payoutCreate", "transferInsert", "complete"}

(* The margin of an item as the contract has it: the margin that is set,   *)
(* whatever its value, and the default where none is set.                  *)
ContractMargin(item) ==
    IF item.profit_margin = <<>> THEN DefaultMarginPct ELSE item.profit_margin[1]

RECURSIVE ContractSum(_)
ContractSum(items) ==
    IF items = <<>> THEN 0
    ELSE items[1].total_price * ContractMargin(items[1]) + ContractSum(Tail(items))

ContractProfit(order) ==
    IF order.order_items # <<>> THEN ContractSum(order.order_items)
    ELSE order.total_amount * DefaultMarginPct

(* C14: calculateProfit returns the sum over the items of total_price      *)
(* times the margin, an item without a margin taking the default 0.25,     *)
(* and total_amount times 0.25 for an order without items.                 *)
C14_ProfitIsSumOverItems ==
    \A r \in Runs :
        Calculated(r) => profitAmount[r] = ContractProfit(orders[CurOrder(r)])

AllExplicit(order) ==
    /\ order.order_items # <<>>
    /\ \A k \in 1..Len(order.order_items) : order.order_items[k].profit_margin # <<>>

RECURSIVE ExplicitSum(_)
ExplicitSum(items) ==
    IF items = <<>> THEN 0
    ELSE items[1].total_price * items[1].profit_margin[1] + ExplicitSum(Tail(items))

(* C15: for an order whose items all carry a margin, a margin of 0         *)
(* included, calculateProfit is exactly the sum of total_price times the   *)
(* margin of the item; the default is used for no item that has a margin.  *)
C15_ExplicitMarginsExact ==
    \A r \in Runs :
        (Calculated(r) /\ AllExplicit(orders[CurOrder(r)]))
          => profitAmount[r] = ExplicitSum(orders[CurOrder(r)].order_items)

(* C16: the profit_amount of an order in the store is never negative.     *)
C16_ProfitNeverNegative ==
    \A o \in Stored : orders[o].profit_amount >= 0

(* The items of the store that hold a supplier order id.                   *)
DispatchedItems ==
    {<<o, k>> \in Stored \X (1..MaxItems) :
        k \in ItemIds(o) /\ Items(o)[k].supplier_order_id # NULL}

(* C18: supplier order ids are unique: no two order items hold the same    *)
(* supplier_order_id.                                                      *)
C18_SupplierOrderIdsUnique ==
    \A a, b \in DispatchedItems :
        a # b => Items(a[1])[a[2]].supplier_order_id # Items(b[1])[b[2]].supplier_order_id

(* The calls of trackSupplierOrder for one supplier order, in order, and   *)
(* those of them made when an item of the store held the supplier order.   *)
Polls(sid) == 1..Len(polled[sid])

Held(tbl, sid) ==
    \E o \in DOMAIN tbl : \E k \in 1..Len(tbl[o].order_items) :
        tbl[o].order_items[k].supplier_order_id = sid

PollsOfHeld(sid) == {i \in Polls(sid) : Held(polled[sid][i].before, sid)}

StatusRank(st) == IF st = "pending" THEN 0 ELSE IF st = "ordered" THEN 1 ELSE 2

(* C19: trackSupplierOrder is idempotent and safe to poll: every call for  *)
(* a supplier order returns what the call before returned, a call on the   *)
(* store the call before left leaves it as it is, and no call changes the  *)
(* status of an order or moves the status of an item backwards.            *)
C19_TrackingIdempotent ==
    \A sid \in SupplierOrderIds :
        /\ \A i \in PollsOfHeld(sid) : \A o \in Stored :
             LET e == polled[sid][i]
             IN  /\ e.after[o].status = e.before[o].status
                 /\ \A k \in 1..Len(e.before[o].order_items) :
                      StatusRank(e.after[o].order_items[k].supplier_status)
                        >= StatusRank(e.before[o].order_items[k].supplier_status)
        /\ \A i \in PollsOfHeld(sid) \ {1} :
             LET e == polled[sid][i]  d == polled[sid][i - 1]
             IN  (i - 1) \in PollsOfHeld(sid)
                   => /\ e.returned = d.returned
                      /\ e.before = d.after => e.after = d.after

(* After a store operation of the order in hand has failed, the run is in  *)
(* no later phase of the order: it has left processSingleOrder.            *)
C20_Aborted ==
    \A r \in Runs : (InHand(r) /\ cur[r].lost) => pc[r] = "fail"

(* A run that had a store operation of the order fail does not mark the    *)
(* order completed.                                                        *)
C20_NotCompleted ==
    \A r \in Runs :
        (pc[r] = "complete" /\ pc'[r] # "complete" /\ cur[r].lost)
          => orders'[CurOrder(r)].status # "completed"

(* C20: when a store operation fails while an order is processed, the      *)
(* processing of the order is aborted there and no later phase runs; the   *)
(* order is not marked completed when one of its writes has failed.        *)
C20_StoreFailureAborts == []C20_Aborted /\ [][C20_NotCompleted]_vars

(* The rows of profit_transfers.                                           *)
TransferRows == {profit_transfers[i] : i \in 1..Len(profit_transfers)}

(* C21: a transfer of a stripe order is recorded as pending with the       *)
(* reference of a payout created for the order; a transfer of a paypal     *)
(* order is recorded as pending_manual with a note that asks for a manual  *)
(* transfer; no other status is written.                                   *)
C21_TransferStatusByMethod ==
    \A t \in TransferRows :
        /\ t.status \in {"pending", "pending_manual"}
        /\ orders[t.order_id].payment_method = "stripe"
             => /\ t.status = "pending"
                /\ t.method = "stripe"
                /\ \E n \in 1..payouts[t.order_id] : t.transfer_id = <<"po", t.order_id, n>>
        /\ orders[t.order_id].payment_method = "paypal"
             => /\ t.status = "pending_manual"
                /\ t.method = "paypal"
                /\ t.notes = "Manual PayPal transfer required"

(* C21, its case: the store holds a transfer of a stripe order and a       *)
(* transfer of a paypal order.                                             *)
C21_Witness ==
    /\ \E t \in TransferRows : orders[t.order_id].payment_method = "stripe"
    /\ \E t \in TransferRows : orders[t.order_id].payment_method = "paypal"

StatusBefore(st) ==
    IF st = "completed" THEN {"fulfilling"}
    ELSE IF st = "fulfilling" THEN {"paid"}
    ELSE IF st = "paid" THEN {"pending"}
    ELSE IF st = "failed" THEN {"pending", "paid", "fulfilling"}
    ELSE {}

(* C23: the status in the store follows pending, paid, fulfilling,         *)
(* completed: an order becomes completed from fulfilling only, fulfilling  *)
(* from paid only and paid from pending only.                              *)
C23_StatusFollowsStateMachine ==
    [][\A o \in Stored :
          orders'[o].status # orders[o].status
            => orders[o].status \in StatusBefore(orders'[o].status)]_vars

(* The items of an order for which a supplier order was created, and those *)
(* whose reference is in the store.                                        *)
Created(o) == {k \in ItemIds(o) : supplierOrders[o][k] > 0}
Referenced(o) == {k \in ItemIds(o) : Items(o)[k].supplier_order_id # NULL}

IsPrefix(S) == \A k \in S : \A j \in 1..k : j \in S

(* C24: the items of an order are dispatched one at a time in the order of *)
(* the list: the dispatched items are a prefix of the list, and an item is *)
(* dispatched only when the reference of every item before it is in the    *)
(* store.                                                                  *)
C24_DispatchInListOrder ==
    \A o \in Stored :
        /\ IsPrefix(Created(o))
        /\ IsPrefix(Referenced(o))
        /\ \A k \in Created(o) : \A j \in 1..(k - 1) : j \in Referenced(o)

(* What is done for the order in hand when a run is at a step.             *)
ProfitPersisted(r) ==
    orders[CurOrder(r)].profit_amount = RoundToCents(profitAmount[r])

AllItemsDispatched(o) == Created(o) = ItemIds(o) /\ Referenced(o) = ItemIds(o)

(* The steps of an order are taken in order: the items are dispatched with *)
(* the profit persisted, the payout phase is entered with every item       *)
(* dispatched, and step 5 is reached with the payout phase ended.          *)
C25_StepsInOrder ==
    \A r \in Runs :
        /\ pc[r] \in {"dispatch", "payoutCreate", "transferInsert", "complete"}
             => ProfitPersisted(r)
        /\ pc[r] \in {"payoutCreate", "transferInsert", "complete"}
             => AllItemsDispatched(CurOrder(r))
        /\ pc[r] = "complete"
             => cur[r].payout \in {"ok", "failed", "skipped", "nothing"}

(* The write of completed is made by a run at step 5, sets updated_at to   *)
(* the time of the write, and no write for the order follows it.           *)
C25_CompletedIsLastWrite ==
    \A o \in Stored :
        /\ (orders'[o].status = "completed" /\ orders[o].status # "completed")
             => /\ \E r \in Runs : pc[r] = "complete" /\ CurOrder(r) = o
                /\ orders'[o].updated_at = now
        /\ orders[o].status = "completed"
             => /\ orders'[o] = orders[o]
                /\ Len(SelectSeq(profit_transfers', LAMBDA t : t.order_id = o))
                     = Len(SelectSeq(profit_transfers, LAMBDA t : t.order_id = o))

(* C25: an order is set to completed only after its profit_amount was      *)
(* persisted, then every item dispatched, then the payout phase attempted; *)
(* the write of completed sets updated_at and is the last write of the     *)
(* pipeline for the order.                                                 *)
C25_CompletedAfterAllPhases == []C25_StepsInOrder /\ [][C25_CompletedIsLastWrite]_vars

(* C24, its case: a run has dispatched the first of two items of an order  *)
(* and stored its reference, and is about to dispatch the second.          *)
C24_Witness ==
    \E r \in Runs :
        /\ pc[r] = "dispatch" /\ itemIdx[r] = 2
        /\ Len(Items(CurOrder(r))) = 2
        /\ Created(CurOrder(r)) = {1}
        /\ Referenced(CurOrder(r)) = {1}

C25_Witness ==
    \E o \in Stored :
        /\ orders[o].status = "completed"
        /\ orders[o].updated_at > 0
        /\ Len(Items(o)) = 2
        /\ TransfersOf(o) = 1

(* A step creates a supplier order for item k of order o.                  *)
Dispatches(o, k) == supplierOrders'[o][k] = supplierOrders[o][k] + 1

(* C26: a dispatch of an item writes a supplier order reference and the    *)
(* status ordered on that item and changes no other item, no field of the  *)
(* order and no other order.                                               *)
C26_DispatchWritesOneItem ==
    [][\A o \in Stored : \A k \in ItemIds(o) :
          Dispatches(o, k)
            => /\ Items(o)'[k] = [Items(o)[k] EXCEPT
                                    !.supplier_order_id = Items(o)'[k].supplier_order_id,
                                    !.supplier_status = "ordered"]
               /\ Items(o)'[k].supplier_order_id \in SupplierOrderIds
               /\ \A j \in ItemIds(o) \ {k} : Items(o)'[j] = Items(o)[j]
               /\ orders'[o] = [orders[o] EXCEPT !.order_items = Items(o)']
               /\ \A p \in Stored \ {o} : orders'[p] = orders[p]
               /\ profit_transfers' = profit_transfers]_vars

(* C26, its case: the first item of an order with two items is dispatched  *)
(* and holds its reference, the second is as it was.                       *)
C26_Witness ==
    \E o \in Stored :
        /\ Len(Items(o)) = 2
        /\ supplierOrders[o] = <<1, 0>>
        /\ Items(o)[1].supplier_order_id \in SupplierOrderIds
        /\ Items(o)[1].supplier_status = "ordered"
        /\ Items(o)[2].supplier_order_id = NULL
        /\ Items(o)[2].supplier_status = "pending"

(* C27: every item of a completed order is dispatched: it holds a supplier *)
(* order reference and its status is ordered or a later one.               *)
C27_CompletedMeansAllDispatched ==
    \A o \in Stored :
        orders[o].status = "completed"
          => \A k \in ItemIds(o) :
                /\ Items(o)[k].supplier_order_id # NULL
                /\ Items(o)[k].supplier_status \in {"ordered", "in_transit"}
                /\ supplierOrders[o][k] > 0

(* C27, its case: an order with two items is completed.                    *)
C27_Witness ==
    \E o \in Stored : orders[o].status = "completed" /\ Len(Items(o)) = 2

(* The payment step of the order in hand is passed: skipped for an order   *)
(* fetched as paid or as anything but pending, or the payment written as   *)
(* paid.                                                                   *)
PaymentPassed(r) ==
    \/ ~NeedsPayment(batch[r][idx[r]].payment_status)
    \/ orders[CurOrder(r)].payment_status = "paid"

(* C28: no transfer is written and no payout is requested for an order     *)
(* that ends the run in failed: a run is in the payout phase only with the *)
(* payment step passed and every item dispatched, an order that a run      *)
(* fails has no transfer and no payout of that run, and an order whose     *)
(* status is failed has none at all.                                       *)
C28_NoPayoutForFailedOrder ==
    /\ \A r \in Runs :
         /\ pc[r] \in {"payoutCreate", "transferInsert"}
              => PaymentPassed(r) /\ AllItemsDispatched(CurOrder(r))
         /\ pc[r] = "fail" => cur[r].payout = "none" /\ cur[r].inserted = 0
         /\ \A i \in Logged(r) :
              trace[r][i].outcome = "failed"
                => trace[r][i].payout = "none" /\ trace[r][i].inserted = 0
    /\ \A o \in Stored :
         orders[o].status = "failed" => TransfersOf(o) = 0 /\ payouts[o] = 0

(* C28, its case: an order with a positive profit and a payment method     *)
(* that has a payout is failed by a run, at its second item.               *)
C28_Witness ==
    \E r \in Runs : \E i \in Logged(r) :
        LET o == trace[r][i].order
        IN  /\ trace[r][i].outcome = "failed"
            /\ orders[o].status = "failed"
            /\ orders[o].payment_method \in {"stripe", "paypal"}
            /\ orders[o].profit_amount > 0
            /\ Created(o) = {1}

(* C29: the amount of every row of profit_transfers is the profit_amount   *)
(* stored on the order it references and is strictly positive, and the     *)
(* row references an order of the store for which a run made a transfer.   *)
C29_TransferAmountIsStoredProfit ==
    \A t \in TransferRows :
        /\ t.order_id \in settled
        /\ t.amount = orders[t.order_id].profit_amount
        /\ t.amount > 0

(* A run has gone through its whole batch.                                 *)
AtEndOfRun(r) == pc[r] = "order" /\ idx[r] > Len(batch[r])

(* C30: every order a run fetched has left the pending state when the run  *)
(* ends, so that the orders of one run are not the batch of the next.      *)
C30_NoOrderLeftPending ==
    \A r \in Runs :
        AtEndOfRun(r) => \A o \in BatchIds(r) : orders[o].status # "pending"

====
